---- MODULE Spec2Model ----
(***************************************************************************)
(* Model of src/script.ts: the per-row pipeline (readColorRow,             *)
(* validRawColor, getEmbedding, prepColorEntry, saveColorEntry) and the    *)
(* batch driver runFullScript with getColorRows and delay.                 *)
(*                                                                         *)
(* Text is a sequence of one-character strings.  An optional argument is   *)
(* <<>> (undefined) or <<n>>.  A RawColor whose hex is undefined is a      *)
(* record without a hex field.                                             *)
(***************************************************************************)
EXTENDS Integers, Sequences, FiniteSets, TLC

VARIABLES
  file,          \* the text of the CSV file at COLORS_CSV_PATH
  maxRows,       \* argument of runFullScript: <<>> or <<n>>
  startRow,      \* argument of runFullScript: <<>> or <<n>>
  colorRows,     \* runFullScript's colorRows
  i,             \* the loop variable of runFullScript
  pc,            \* where runFullScript is
  rawColor,      \* the current row's RawColor, <<>> when there is none
  preppedColor,  \* the current row's PreppedColor, <<>> when there is none
  pending,       \* the asynchronous operations issued and not yet settled
  store,         \* the rows of the "colors" table
  console,       \* the log events written by the last step
  attempted,     \* history: the indices of the rows the loop body started
  pauses,        \* history: the 1-based positions a delay was issued after
  lastOutcome,   \* history: how the last finished row ended
  lastUpsert,    \* history: index of the last row whose upsert succeeded
  storeBefore,   \* history: the store when the current row started
  embedded,      \* history: the vector the provider returned for this row
  failed         \* history: some row of the run has failed

vars == <<file, maxRows, startRow, colorRows, i, pc, rawColor, preppedColor,
          pending, store, console, attempted, pauses, lastOutcome,
          lastUpsert, storeBefore, embedded, failed>>

----------------------------------------------------------------------------
(* Program constants *)

NameLimit == 100
HexLength == 7
DelayEvery == 10
DelayMs == 200

(* Bounds of the model *)

MaxShort == 3      \* files of every row combination up to this many rows
MaxRows == 25      \* uniform files up to this many rows
MaxStart == 1      \* startRow in 0..MaxStart, or undefined
MaxCap == 2        \* maxRows in 0..MaxCap, or undefined
MaxFew == 2        \* the same, for the repeated runs and the fair runs
MaxFairRows == 11  \* uniform files up to this many rows, for the same
MaxNameLen == 101  \* longest name given to validRawColor
MaxHexLen == 8     \* longest hex given to validRawColor

----------------------------------------------------------------------------
(* String primitives *)

Hash == "#"
Comma == ","
Newline == "\n"

\* String.prototype.split with a one-character separator: the pieces between
\* consecutive separators, so n separators give n + 1 pieces
Split(s, sep) ==
  LET seps == {k \in 1..Len(s) : s[k] = sep}
      n == Cardinality(seps)
      Pos(j) == IF j = 0 THEN 0
                ELSE IF j = n + 1 THEN Len(s) + 1
                ELSE CHOOSE k \in seps : Cardinality({h \in seps : h <= k}) = j
  IN  [j \in 1..(n + 1) |-> SubSeq(s, Pos(j - 1) + 1, Pos(j) - 1)]

\* Array.prototype.slice(from) and slice(0, n), for n >= 0
SliceFrom(a, from) == SubSeq(a, from + 1, Len(a))
SliceTo(a, n) == SubSeq(a, 1, IF n < Len(a) THEN n ELSE Len(a))

StartsWith(s, ch) == Len(s) > 0 /\ s[1] = ch

\* variant: replace every occurrence (replaceAll, or a /#/g pattern)
ReplaceEvery(s, ch) == SelectSeq(s, LAMBDA c : c # ch)

\* String.prototype.replace(ch, ""): the first occurrence only
ReplaceFirst(s, ch) ==
  LET hits == {k \in 1..Len(s) : s[k] = ch}
  IN  IF hits = {} THEN s
      ELSE LET first == CHOOSE k \in hits : \A h \in hits : k <= h
           IN  SubSeq(s, 1, first - 1) \o SubSeq(s, first + 1, Len(s))

RECURSIVE Join(_, _)
Join(lines, sep) ==
  IF Len(lines) = 0 THEN <<>>
  ELSE IF Len(lines) = 1 THEN lines[1]
  ELSE lines[1] \o <<sep>> \o Join(Tail(lines), sep)

Digit(n) == <<"0", "1", "2", "3", "4", "5", "6", "7", "8", "9">>[n + 1]

\* JSON.stringify of an array of one-digit numbers
Stringify(vec) ==
  <<"[">> \o Join([k \in 1..Len(vec) |-> <<Digit(vec[k])>>], Comma) \o <<"]">>

----------------------------------------------------------------------------
(* Pipeline functions *)

\* variant: the flag taken as the truthiness of the third field
readColorRowTruthyFlag(rowText) ==
  LET fields == Split(rowText, Comma)
      flag == Len(fields) >= 3 /\ fields[3] # <<>>
  IN  IF Len(fields) >= 2
      THEN [name |-> fields[1], hex |-> fields[2], is_good_name |-> flag]
      ELSE [name |-> fields[1], is_good_name |-> flag]

readColorRow(rowText) ==
  LET fields == Split(rowText, Comma)
      flag == Len(fields) >= 3 /\ fields[3] = <<"x">>
  IN  IF Len(fields) >= 2
      THEN [name |-> fields[1], hex |-> fields[2], is_good_name |-> flag]
      ELSE [name |-> fields[1], is_good_name |-> flag]

\* variant: the name bound written <= instead of <
validRawColorInclusive(raw) ==
  LET validName == Len(raw.name) > 0 /\ Len(raw.name) <= NameLimit
      validHex == Len(raw.hex) = HexLength /\ StartsWith(raw.hex, Hash)
      validIsGoodName == raw.is_good_name \in BOOLEAN
  IN  validName /\ validHex /\ validIsGoodName

validRawColor(raw) ==
  LET validName == Len(raw.name) > 0 /\ Len(raw.name) < NameLimit
      validHex == Len(raw.hex) = HexLength /\ StartsWith(raw.hex, Hash)
      validIsGoodName == raw.is_good_name \in BOOLEAN
  IN  validName /\ validHex /\ validIsGoodName

\* variant: prepColorEntry without its validation check
PrepThrowsUnchecked(raw) == "hex" \notin DOMAIN raw

\* variant: a row whose name is already stored is rejected as well
PrepThrowsOrStored(raw) ==
  IF "hex" \notin DOMAIN raw THEN TRUE
  ELSE IF ~validRawColor(raw) THEN TRUE
  ELSE \E r \in store : r.name = raw.name

\* prepColorEntry throws before any call: the thrown Error of line 44, or
\* the TypeError of reading .length of an undefined hex in validRawColor
PrepThrows(raw) ==
  IF "hex" \notin DOMAIN raw THEN TRUE ELSE ~validRawColor(raw)

\* variant: the hex copied as it is, the '#' not removed
PreppedOfKeepsHash(raw, embeddingSmall) ==
  [name |-> raw.name,
   hex |-> raw.hex,
   is_good_name |-> raw.is_good_name,
   embedding_openai_1536 |-> Stringify(embeddingSmall)]

\* what prepColorEntry returns once getEmbedding returned embeddingSmall
PreppedOf(raw, embeddingSmall) ==
  [name |-> raw.name,
   hex |-> ReplaceFirst(raw.hex, Hash),
   is_good_name |-> raw.is_good_name,
   embedding_openai_1536 |-> Stringify(embeddingSmall)]

\* variant: insert instead of upsert, no conflict key
UpsertInsert(table, prepped) == table \cup {prepped}

\* variant: upsert with ignoreDuplicates, the existing row is kept
UpsertIgnoresDuplicate(table, prepped) ==
  IF \E r \in table : r.name = prepped.name THEN table
  ELSE table \cup {prepped}

\* the table after upsert(prepped, { onConflict: "name" }) succeeded
Upsert(table, prepped) ==
  {r \in table : r.name # prepped.name} \cup {prepped}

----------------------------------------------------------------------------
(* getColorRows and the arguments of runFullScript *)

Truthy(opt) == opt # <<>> /\ opt[1] # 0

\* variant: the cap applied to the rows before the header is dropped
getColorRowsCapsFirst(text, omitHeader, max) ==
  LET rows == Split(text, Newline)
      capped == IF Truthy(max) THEN SliceTo(rows, max[1]) ELSE rows
  IN  IF omitHeader THEN SliceFrom(capped, 1) ELSE capped

getColorRows(text, omitHeader, max) ==
  LET rows == Split(text, Newline)
      contentRows == IF omitHeader THEN SliceFrom(rows, 1) ELSE rows
  IN  IF Truthy(max) THEN SliceTo(contentRows, max[1]) ELSE contentRows

\* startRow || 0
FirstIndex(start) == IF Truthy(start) THEN start[1] ELSE 0

----------------------------------------------------------------------------
(* The inputs: files, arguments and provider responses *)

Header == <<"n", "a", "m", "e", ",", "h", "e", "x", ",", "o", "k">>
RedRow == <<"R", "e", "d", ",", "#", "f", "f", "0", "0", "0", "0", ",", "x">>
RedAgain == <<"R", "e", "d", ",", "#", "0", "0", "f", "f", "0", "0", ",">>
SkyRow == <<"S", "k", "y", ",", "#", "0", "0", "f", "f", "f", "f", ",", "y">>
NoNameRow == <<",", "#", "f", "f", "0", "0", "0", "0", ",", "x">>
BadHexRow == <<"T", "a", "n", ",", "f", "f", "0", "0", "0", "0", ",", "x">>
EmptyRow == <<>>

RowTexts == {RedRow, RedAgain, SkyRow, NoNameRow, BadHexRow, EmptyRow}

\* every combination of rows up to MaxShort rows
ShortFiles == UNION {[1..n -> RowTexts] : n \in 0..MaxShort}

\* one valid row or one invalid row repeated, up to MaxRows rows
UniformFiles ==
  {[k \in 1..n |-> t] : t \in {RedRow, NoNameRow}, n \in 0..MaxRows}

FileText(rows) == Join(<<Header>> \o rows, Newline)

Files == {FileText(rows) : rows \in ShortFiles \cup UniformFiles}

StartArgs == {<<>>} \cup {<<n>> : n \in 0..MaxStart}
CapArgs == {<<>>} \cup {<<n>> : n \in 0..MaxCap}

\* what the embedding provider may return
Vectors == {<<0, 1>>, <<1, 0>>}

----------------------------------------------------------------------------
(* runFullScript *)

Init ==
  /\ file \in Files
  /\ maxRows \in CapArgs
  /\ startRow \in StartArgs
  /\ colorRows = <<>>
  /\ i = 0
  /\ pc = "start"
  /\ rawColor = <<>>
  /\ preppedColor = <<>>
  /\ pending = {}
  /\ store = {}
  /\ console = <<>>
  /\ attempted = <<>>
  /\ pauses = <<>>
  /\ lastOutcome = "none"
  /\ lastUpsert = -1
  /\ storeBefore = {}
  /\ embedded = <<>>
  /\ failed = FALSE

EmbedOp(idx) == [op |-> "embed", row |-> idx]
UpsertOp(idx) == [op |-> "upsert", row |-> idx]
DelayOp(idx) == [op |-> "delay", row |-> idx, ms |-> DelayMs]

\* variant: the test written on i instead of i + 1
DelayDueOnIndex(idx) == idx % DelayEvery = 0

\* (i + 1) % 10 === 0
DelayDue(idx) == (idx + 1) % DelayEvery = 0

\* the i++ of the for loop
NextIndex(idx) == idx + 1

\* const colorRows = await getColorRows(...); let i = startRow || 0
Start ==
  /\ pc = "start"
  /\ colorRows' = getColorRows(file, TRUE, maxRows)
  /\ console' = <<[kind |-> "processing", n |-> Len(colorRows')]>>
  /\ i' = FirstIndex(startRow)
  /\ pc' = "loop"
  /\ UNCHANGED <<file, maxRows, startRow, rawColor, preppedColor, pending,
                 store, attempted, pauses, lastOutcome, lastUpsert,
                 storeBefore, embedded, failed>>

\* variant: the catch block retries the row (i-- before the loop's i++)
CatchRetry(kind) ==
  /\ console' = <<[kind |-> "rowError", row |-> i + 1, error |-> kind]>>
  /\ lastOutcome' = kind
  /\ failed' = TRUE
  /\ rawColor' = <<>>
  /\ preppedColor' = <<>>
  /\ i' = i
  /\ pc' = "loop"

\* the catch block of the loop body, then i++
Catch(kind) ==
  /\ console' = <<[kind |-> "rowError", row |-> i + 1, error |-> kind]>>
  /\ lastOutcome' = kind
  /\ failed' = TRUE
  /\ rawColor' = <<>>
  /\ preppedColor' = <<>>
  /\ i' = NextIndex(i)
  /\ pc' = "loop"

\* variant: the row is read and validated outside the try block
RowThrowsEscapes ==
  /\ pc = "loop"
  /\ i < Len(colorRows)
  /\ PrepThrows(readColorRow(colorRows[i + 1]))
  /\ attempted' = Append(attempted, i)
  /\ storeBefore' = store
  /\ embedded' = <<>>
  /\ console' = <<>>
  /\ lastOutcome' = "invalid"
  /\ failed' = TRUE
  /\ pc' = "done"
  /\ UNCHANGED <<file, maxRows, startRow, colorRows, i, rawColor,
                 preppedColor, pending, store, pauses, lastUpsert>>

\* a row whose prepColorEntry throws before the embedding call
RowThrows ==
  /\ pc = "loop"
  /\ i < Len(colorRows)
  /\ PrepThrows(readColorRow(colorRows[i + 1]))
  /\ attempted' = Append(attempted, i)
  /\ storeBefore' = store
  /\ embedded' = <<>>
  /\ Catch("invalid")
  /\ UNCHANGED <<file, maxRows, startRow, colorRows, pending, store, pauses,
                 lastUpsert>>

\* a valid row: prepColorEntry calls getEmbedding and awaits it
RowEmbed ==
  /\ pc = "loop"
  /\ i < Len(colorRows)
  /\ ~PrepThrows(readColorRow(colorRows[i + 1]))
  /\ rawColor' = readColorRow(colorRows[i + 1])
  /\ preppedColor' = <<>>
  /\ pending' = pending \cup {EmbedOp(i)}
  /\ attempted' = Append(attempted, i)
  /\ storeBefore' = store
  /\ embedded' = <<>>
  /\ console' = <<>>
  /\ pc' = "embedding"
  /\ UNCHANGED <<file, maxRows, startRow, colorRows, i, store, pauses,
                 lastOutcome, lastUpsert, failed>>

\* variant: saveColorEntry(preppedColor) called without await
EmbeddingReturnsNoAwait ==
  /\ pc = "embedding"
  /\ \E vec \in Vectors :
       /\ embedded' = vec
       /\ preppedColor' = PreppedOf(rawColor, vec)
  /\ pending' = (pending \ {EmbedOp(i)}) \cup {UpsertOp(i)}
  /\ console' = <<>>
  /\ i' = NextIndex(i)
  /\ pc' = "loop"
  /\ UNCHANGED <<file, maxRows, startRow, colorRows, rawColor, store,
                 attempted, pauses, lastOutcome, lastUpsert, storeBefore,
                 failed>>

\* getEmbedding returns; prepColorEntry returns; saveColorEntry calls upsert
EmbeddingReturns ==
  /\ pc = "embedding"
  /\ \E vec \in Vectors :
       /\ embedded' = vec
       /\ preppedColor' = PreppedOf(rawColor, vec)
  /\ pending' = (pending \ {EmbedOp(i)}) \cup {UpsertOp(i)}
  /\ console' = <<>>
  /\ pc' = "saving"
  /\ UNCHANGED <<file, maxRows, startRow, colorRows, i, rawColor, store,
                 attempted, pauses, lastOutcome, lastUpsert, storeBefore,
                 failed>>

\* variant: the try/catch around the loop instead of inside it
EmbeddingFailsAborts ==
  /\ pc = "embedding"
  /\ pending' = pending \ {EmbedOp(i)}
  /\ console' = <<[kind |-> "rowError", row |-> i + 1, error |-> "provider"]>>
  /\ lastOutcome' = "provider"
  /\ failed' = TRUE
  /\ rawColor' = <<>>
  /\ preppedColor' = <<>>
  /\ pc' = "done"
  /\ UNCHANGED <<file, maxRows, startRow, colorRows, i, store, attempted,
                 pauses, lastUpsert, storeBefore, embedded>>

\* the embedding call rejects
EmbeddingFails ==
  /\ pc = "embedding"
  /\ pending' = pending \ {EmbedOp(i)}
  /\ Catch("provider")
  /\ UNCHANGED <<file, maxRows, startRow, colorRows, store, attempted,
                 pauses, lastUpsert, storeBefore, embedded>>

\* variant: delay(200) called without await
AfterSaveNoAwait(logs) ==
  /\ rawColor' = <<>>
  /\ preppedColor' = <<>>
  /\ IF DelayDue(i)
     THEN /\ console' = Append(logs, [kind |-> "delay", row |-> i + 1,
                                      n |-> Len(colorRows)])
          /\ pending' = (pending \ {UpsertOp(i)}) \cup {DelayOp(i)}
          /\ pauses' = Append(pauses, i + 1)
     ELSE /\ console' = logs
          /\ pending' = pending \ {UpsertOp(i)}
          /\ pauses' = pauses
  /\ i' = NextIndex(i)
  /\ pc' = "loop"

\* lines 165-171, after saveColorEntry returned; logs is what it logged
AfterSave(logs) ==
  /\ rawColor' = <<>>
  /\ preppedColor' = <<>>
  /\ IF DelayDue(i)
     THEN /\ console' = Append(logs, [kind |-> "delay", row |-> i + 1,
                                      n |-> Len(colorRows)])
          /\ pending' = (pending \ {UpsertOp(i)}) \cup {DelayOp(i)}
          /\ pauses' = Append(pauses, i + 1)
          /\ i' = i
          /\ pc' = "delaying"
     ELSE /\ console' = logs
          /\ pending' = pending \ {UpsertOp(i)}
          /\ pauses' = pauses
          /\ i' = NextIndex(i)
          /\ pc' = "loop"

\* the upsert resolves without an error
UpsertOk ==
  /\ pc = "saving"
  /\ store' = Upsert(store, preppedColor)
  /\ lastOutcome' = "saved"
  /\ lastUpsert' = i
  /\ AfterSave(<<[kind |-> "saved", name |-> preppedColor.name]>>)
  /\ UNCHANGED <<file, maxRows, startRow, colorRows, attempted, storeBefore,
                 embedded, failed>>

\* variant: saveColorEntry throws the error the store returned
UpsertErrorThrows ==
  /\ pc = "saving"
  /\ pending' = pending \ {UpsertOp(i)}
  /\ Catch("storeError")
  /\ UNCHANGED <<file, maxRows, startRow, colorRows, store, attempted,
                 pauses, lastUpsert, storeBefore, embedded>>

\* the upsert resolves with { error }
UpsertError ==
  /\ pc = "saving"
  /\ lastOutcome' = "storeError"
  /\ failed' = TRUE
  /\ AfterSave(<<[kind |-> "storeError"]>>)
  /\ UNCHANGED <<file, maxRows, startRow, colorRows, store, attempted,
                 lastUpsert, storeBefore, embedded, failed>>

\* the upsert call rejects
UpsertThrows ==
  /\ pc = "saving"
  /\ pending' = pending \ {UpsertOp(i)}
  /\ Catch("storeThrow")
  /\ UNCHANGED <<file, maxRows, startRow, colorRows, store, attempted,
                 pauses, lastUpsert, storeBefore, embedded>>

\* variant: the promise of delay never calls resolve
DelayNeverResolves ==
  /\ pc = "delaying"
  /\ pending' = pending
  /\ UNCHANGED <<file, maxRows, startRow, colorRows, i, pc, rawColor,
                 preppedColor, store, console, attempted, pauses,
                 lastOutcome, lastUpsert, storeBefore, embedded, failed>>

\* await delay(200) resolves, then i++
DelayDone ==
  /\ pc = "delaying"
  /\ pending' = pending \ {DelayOp(i)}
  /\ console' = <<>>
  /\ i' = NextIndex(i)
  /\ pc' = "loop"
  /\ UNCHANGED <<file, maxRows, startRow, colorRows, rawColor, preppedColor,
                 store, attempted, pauses, lastOutcome, lastUpsert,
                 storeBefore, embedded, failed>>

\* the loop condition fails: console.log("Script completed!")
LoopExit ==
  /\ pc = "loop"
  /\ ~(i < Len(colorRows))
  /\ console' = <<[kind |-> "completed"]>>
  /\ pc' = "done"
  /\ UNCHANGED <<file, maxRows, startRow, colorRows, i, rawColor,
                 preppedColor, pending, store, attempted, pauses,
                 lastOutcome, lastUpsert, storeBefore, embedded, failed>>

Next ==
  \/ Start
  \/ RowThrows
  \/ RowEmbed
  \/ EmbeddingReturns
  \/ EmbeddingFails
  \/ UpsertOk
  \/ UpsertError
  \/ UpsertThrows
  \/ DelayDone
  \/ LoopExit

Spec == Init /\ [][Next]_vars

----------------------------------------------------------------------------
(* Several runs over the same file and the same store *)

\* runFullScript is called again, with any arguments, once a run is done
Rerun ==
  /\ pc = "done"
  /\ maxRows' \in CapArgs
  /\ startRow' \in StartArgs
  /\ colorRows' = <<>>
  /\ i' = 0
  /\ pc' = "start"
  /\ console' = <<>>
  /\ attempted' = <<>>
  /\ pauses' = <<>>
  /\ lastOutcome' = "none"
  /\ lastUpsert' = -1
  /\ storeBefore' = store
  /\ embedded' = <<>>
  /\ failed' = FALSE
  /\ UNCHANGED <<file, rawColor, preppedColor, pending, store>>

\* every combination of rows up to MaxFew rows
FewFiles == UNION {[1..n -> RowTexts] : n \in 0..MaxFew}

\* one valid row or one invalid row repeated, up to MaxFairRows rows
FairFiles ==
  {[k \in 1..n |-> t] : t \in {RedRow, NoNameRow}, n \in 0..MaxFairRows}

InitRerun ==
  /\ Init
  /\ file \in {FileText(rows) : rows \in FewFiles \cup FairFiles}

NextRerun ==
  \/ Next
  \/ Rerun

SpecRerun == InitRerun /\ [][NextRerun]_vars

----------------------------------------------------------------------------
(* One run in which the script keeps running and every call settles *)

InitFair ==
  /\ Init
  /\ file \in {FileText(rows) : rows \in FewFiles \cup FairFiles}

\* the synchronous steps of the script are taken; the embedding call, the
\* upsert and the timer each settle one way or another
Fairness ==
  /\ WF_vars(Start \/ RowThrows \/ RowEmbed \/ LoopExit)
  /\ WF_vars(EmbeddingReturns \/ EmbeddingFails)
  /\ WF_vars(UpsertOk \/ UpsertError \/ UpsertThrows)
  /\ WF_vars(DelayDone)

SpecFair == InitFair /\ [][Next]_vars /\ Fairness

----------------------------------------------------------------------------
(* The pipeline functions on their own: readColorRow, then prepColorEntry *)
(* with the provider's vector, applied to one line of text                *)

NameOf(n) == [k \in 1..n |-> "a"]
PureNames == {NameOf(n) : n \in {0, 1, NameLimit - 1, NameLimit, MaxNameLen}}
PureHexes == UNION {[1..n -> {Hash, "f"}] : n \in 0..MaxHexLen}
PureFlags == {<<>>, <<"x">>, <<"y">>, <<"x", "x">>}

PureLines ==
  PureNames \cup
  {Join(<<n, h, f>>, Comma) : n \in PureNames, h \in PureHexes, f \in PureFlags}

InitPure ==
  /\ file \in PureLines
  /\ maxRows = <<>>
  /\ startRow = <<>>
  /\ colorRows = <<>>
  /\ i = 0
  /\ pc = "line"
  /\ rawColor = <<>>
  /\ preppedColor = <<>>
  /\ pending = {}
  /\ store = {}
  /\ console = <<>>
  /\ attempted = <<>>
  /\ pauses = <<>>
  /\ lastOutcome = "none"
  /\ lastUpsert = -1
  /\ storeBefore = {}
  /\ embedded = <<>>
  /\ failed = FALSE

\* const rawColor = readColorRow(row)
PureRead ==
  /\ pc = "line"
  /\ rawColor' = readColorRow(file)
  /\ pc' = "raw"
  /\ UNCHANGED <<file, maxRows, startRow, colorRows, i, preppedColor,
                 pending, store, console, attempted, pauses, lastOutcome,
                 lastUpsert, storeBefore, embedded, failed>>

\* prepColorEntry(rawColor) throws
PurePrepThrows ==
  /\ pc = "raw"
  /\ PrepThrows(rawColor)
  /\ lastOutcome' = "invalid"
  /\ pc' = "thrown"
  /\ UNCHANGED <<file, maxRows, startRow, colorRows, i, rawColor,
                 preppedColor, pending, store, console, attempted, pauses,
                 lastUpsert, storeBefore, embedded, failed>>

\* prepColorEntry(rawColor) returns, the provider having returned vec
PurePrepReturns ==
  /\ pc = "raw"
  /\ ~PrepThrows(rawColor)
  /\ \E vec \in Vectors :
       /\ embedded' = vec
       /\ preppedColor' = PreppedOf(rawColor, vec)
  /\ lastOutcome' = "prepped"
  /\ pc' = "prepped"
  /\ UNCHANGED <<file, maxRows, startRow, colorRows, i, rawColor, pending,
                 store, console, attempted, pauses, lastUpsert, storeBefore,
                 failed>>

NextPure ==
  \/ PureRead
  \/ PurePrepThrows
  \/ PurePrepReturns

SpecPure == InitPure /\ [][NextPure]_vars

----------------------------------------------------------------------------
(* Properties of runFullScript, checked under Spec *)

\* the validation rule as the data model states it
ValidRecord(raw) ==
  IF "hex" \notin DOMAIN raw THEN FALSE
  ELSE /\ Len(raw.name) >= 1
       /\ Len(raw.name) < 100
       /\ Len(raw.hex) = 7
       /\ raw.hex[1] = "#"

\* the rows the loop body has finished with
Completed ==
  IF pc \in {"embedding", "saving"} THEN Len(attempted) - 1
  ELSE Len(attempted)

C2_FailedRowLeavesStore ==
  [][/\ lastOutcome' \in {"invalid", "provider"} => store' = storeBefore'
     /\ \A op \in pending' \ pending :
          op.op = "upsert" =>
            /\ op.row = i
            /\ ValidRecord(rawColor)
            /\ EmbedOp(i) \in pending
            /\ embedded' \in Vectors
     /\ store' # store => UpsertOp(i) \in pending /\ lastOutcome' = "saved"
    ]_vars

\* a row whose embedding call failed has just been skipped, store in place
C2_Witness ==
  /\ pc = "loop"
  /\ lastOutcome = "provider"
  /\ store # {}
  /\ store = storeBefore
  /\ pending = {}

\* C3: from offset 0, whenever the loop is between two rows the number of
\* pauses so far is the number of rows attempted so far divided by 10,
\* failed rows counting like the others.
C3_PauseAfterEveryTenAttempted ==
  (FirstIndex(startRow) = 0 /\ pc = "loop") =>
    Len(pauses) = Len(attempted) \div 10

\* C4: from offset 0 and with no failure so far, the pauses are exactly the
\* ones after the positions 10, 20, ... up to the number of rows finished.
C4_PausesAtMultiplesOfTen ==
  (FirstIndex(startRow) = 0 /\ ~failed /\ pc # "start") =>
    /\ Len(pauses) = Completed \div 10
    /\ \A n \in 1..Len(pauses) : pauses[n] = 10 * n

\* 25 valid rows without a failure: two pauses, after rows 10 and 20
C4_Witness ==
  /\ pc = "done"
  /\ FirstIndex(startRow) = 0
  /\ ~failed
  /\ Len(attempted) = 25
  /\ pauses = <<10, 20>>

\* C5: successful upserts complete in increasing row order, and an
\* embedding call or an upsert for a row is issued only when no operation of
\* another row is outstanding and every upsert completed so far belongs to
\* an earlier row.
C5_UpsertsInInputOrder ==
  [][/\ lastUpsert' # lastUpsert =>
          /\ lastUpsert' > lastUpsert
          /\ lastUpsert' = i
          /\ UpsertOp(i) \in pending
     /\ \A op \in pending' \ pending :
          op.op \in {"embed", "upsert"} =>
            /\ lastUpsert < op.row
            /\ \A q \in pending : q.row = op.row /\ q \notin pending'
    ]_vars

\* rows 1 and 3 of a three-row file persisted, row 2 between them failed
C5_Witness ==
  /\ pc = "done"
  /\ Len(attempted) = 3
  /\ attempted[1] = 0
  /\ PrepThrows(readColorRow(colorRows[2]))
  /\ lastUpsert = 2
  /\ Cardinality(store) = 2

\* C6: at most one asynchronous operation is outstanding, and none is when
\* the loop is between two rows, before the run or after it.
C6_OneOutstanding ==
  /\ Cardinality(pending) <= 1
  /\ pc \in {"start", "loop", "done"} => pending = {}

\* the pause is the one outstanding operation
C6_Witness ==
  /\ pc = "delaying"
  /\ pending = {DelayOp(i)}
  /\ lastOutcome = "saved"

\* C7: given a start offset s and a cap m, no row below s is attempted and at
\* most m rows are attempted.
C7_OffsetAndCapRespected ==
  (startRow # <<>> /\ maxRows # <<>>) =>
    /\ \A n \in 1..Len(attempted) : attempted[n] >= startRow[1]
    /\ Len(attempted) <= maxRows[1]

\* C8: a step that ends a row with a validation failure, a provider failure
\* or a store error writes an error event carrying the row's position and
\* moves to the next row.
C8_FailureLoggedWithPosition ==
  [][(/\ lastOutcome' \in {"invalid", "provider", "storeError"}
      /\ \/ Len(attempted') > Len(attempted) /\ pc' = "loop"
         \/ pc \in {"embedding", "saving"} /\
              pc' \notin {"embedding", "saving"})
       => /\ \E n \in 1..Len(console') :
               /\ console'[n].kind = "rowError"
               /\ console'[n].row = i + 1
          /\ i' = i + 1
          /\ pc' = "loop"
    ]_vars

\* C13: a row that is started was not attempted before; an embedding
\* request is issued only in
\* the step that starts a row not attempted before, and an upsert only in
\* the step that settles that row's embedding request, so each row gets at
\* most one of each, whatever failed.
C13_NoRetry ==
  [][/\ Len(attempted') > Len(attempted) =>
          \A n \in 1..Len(attempted) :
            attempted[n] # attempted'[Len(attempted')]
     /\ \A op \in pending' \ pending :
          /\ op.op = "embed" =>
               /\ op.row = i
               /\ pc = "loop"
               /\ attempted' = Append(attempted, i)
               /\ \A n \in 1..Len(attempted) : attempted[n] # i
          /\ op.op = "upsert" =>
               /\ op.row = i
               /\ pc = "embedding"
               /\ EmbedOp(i) \in pending
               /\ attempted' = attempted
    ]_vars

\* the embedding call of a row failed and the next row is being embedded
C13_Witness ==
  /\ pc = "embedding"
  /\ lastOutcome = "provider"
  /\ Len(attempted) = 2
  /\ attempted[2] = attempted[1] + 1
  /\ pending = {EmbedOp(attempted[2])}

----------------------------------------------------------------------------
(* Properties of the pipeline functions, checked under SpecPure *)

\* C9: prepColorEntry rejects the record exactly when its name has length 0
\* or at least 100, or its hex is missing, is not 7 characters long or does
\* not start with '#'.
C9_ValidationBoundary ==
  pc \in {"thrown", "prepped"} =>
    ((pc = "thrown") <=>
       IF "hex" \notin DOMAIN rawColor THEN TRUE
       ELSE \/ Len(rawColor.name) = 0
            \/ Len(rawColor.name) >= 100
            \/ Len(rawColor.hex) # 7
            \/ rawColor.hex[1] # "#")

\* a 99-character name with a hex of '#' characters only is accepted
C9_Witness ==
  /\ pc = "prepped"
  /\ Len(rawColor.name) = 99
  /\ \A k \in 1..7 : rawColor.hex[k] = "#"

\* C10: the stored hex of a validated record has 6 characters, and '#'
\* followed by it is the record's original hex.
C10_HexRoundTrip ==
  pc = "prepped" =>
    /\ Len(preppedColor.hex) = 6
    /\ <<"#">> \o preppedColor.hex = rawColor.hex

\* a validated record whose hex has a '#' after the leading one
C10_Witness ==
  /\ pc = "prepped"
  /\ \E k \in 2..7 : rawColor.hex[k] = "#"
  /\ \E k \in 2..7 : rawColor.hex[k] = "f"

\* C15: while the embedding call of a row is outstanding the row has passed
\* validation and nothing has been prepared or sent to the store for it;
\* while its upsert is outstanding the provider has returned a vector for
\* the row and the record sent has the row's name, of length 1 to 99, a hex
\* of 6 characters, a boolean flag and that vector, serialised.
C15_StagesInOrder ==
  /\ pc = "embedding" =>
       /\ rawColor = readColorRow(colorRows[i + 1])
       /\ ValidRecord(rawColor)
       /\ pending = {EmbedOp(i)}
       /\ embedded = <<>>
       /\ preppedColor = <<>>
  /\ pc = "saving" =>
       /\ rawColor = readColorRow(colorRows[i + 1])
       /\ ValidRecord(rawColor)
       /\ pending = {UpsertOp(i)}
       /\ embedded \in Vectors
       /\ preppedColor.name = rawColor.name
       /\ Len(preppedColor.name) \in 1..99
       /\ Len(preppedColor.hex) = 6
       /\ preppedColor.is_good_name \in BOOLEAN
       /\ preppedColor.is_good_name = rawColor.is_good_name
       /\ preppedColor.embedding_openai_1536 = Stringify(embedded)

\* the record of a row flagged false is on its way to the store
C15_Witness ==
  /\ pc = "saving"
  /\ pending = {UpsertOp(i)}
  /\ preppedColor.is_good_name = FALSE
  /\ embedded = <<1, 0>>
  /\ i = 1

\* the step ends the loop body for the current row
RowEnds ==
  \/ pc = "loop" /\ pc' = "loop" /\ Len(attempted') > Len(attempted)
  \/ pc \in {"embedding", "saving"} /\ pc' \notin {"embedding", "saving"}

ContentRowCount == Cardinality({k \in 1..Len(file) : file[k] = "\n"})

\* C18: with a cap m > 0 and offset s (0 when not given) over N content
\* rows, a finished run has attempted exactly the indices from s to
\* min(m, N) - 1 in order, and none when s >= min(m, N).
C18_CapBeforeOffset ==
  (pc = "done" /\ maxRows # <<>> /\ maxRows[1] > 0) =>
    LET s == IF startRow = <<>> THEN 0 ELSE startRow[1]
        m == maxRows[1]
        hi == IF m < ContentRowCount THEN m ELSE ContentRowCount
    IN  /\ Len(attempted) = (IF hi > s THEN hi - s ELSE 0)
        /\ \A n \in 1..Len(attempted) : attempted[n] = s + n - 1

\* offset 1 and cap 1 over at least two rows: done, no row attempted
C18_Witness ==
  /\ pc = "done"
  /\ startRow = <<1>>
  /\ maxRows = <<1>>
  /\ ContentRowCount >= 2
  /\ attempted = <<>>
  /\ console = <<[kind |-> "completed"]>>

C20_ShortRowSkipped ==
  [][(/\ pc = "loop"
      /\ i < Len(colorRows)
      /\ \A k \in 1..Len(colorRows[i + 1]) : colorRows[i + 1][k] # ",")
       => /\ "hex" \notin DOMAIN readColorRow(colorRows[i + 1])
          /\ pending = {}
          /\ pending' = {}
          /\ store' = store
          /\ attempted' = Append(attempted, i)
          /\ console' = <<[kind |-> "rowError", row |-> i + 1,
                           error |-> "invalid"]>>
          /\ lastOutcome' = "invalid"
          /\ i' = i + 1
          /\ pc' = "loop"
    ]_vars

\* an empty line was skipped with its position logged, another row follows
C20_Witness ==
  /\ pc = "loop"
  /\ i >= 1
  /\ i < Len(colorRows)
  /\ colorRows[i] = <<>>
  /\ lastOutcome = "invalid"
  /\ console = <<[kind |-> "rowError", row |-> i, error |-> "invalid"]>>
  /\ pending = {}

\* the positions of the commas of the line
CommasOfLine == {k \in 1..Len(file) : file[k] = ","}

\* C14: for a line with exactly two commas readColorRow returns the text
\* before the first comma as name, the text between the commas as hex, '#'
\* included, and a flag that is true exactly when the text after the second
\* comma is "x".
C14_ReadThreeFields ==
  (pc # "line" /\ Cardinality(CommasOfLine) = 2) =>
    LET c1 == CHOOSE k \in CommasOfLine : \A h \in CommasOfLine : k <= h
        c2 == CHOOSE k \in CommasOfLine : \A h \in CommasOfLine : k >= h
    IN  /\ DOMAIN rawColor = {"name", "hex", "is_good_name"}
        /\ rawColor.name = SubSeq(file, 1, c1 - 1)
        /\ rawColor.hex = SubSeq(file, c1 + 1, c2 - 1)
        /\ rawColor.is_good_name = (SubSeq(file, c2 + 1, Len(file)) = <<"x">>)

\* a line with an empty third field read as a record with a false flag
C14_Witness ==
  /\ pc = "raw"
  /\ Cardinality(CommasOfLine) = 2
  /\ file[Len(file)] = ","
  /\ Len(rawColor.name) = 1
  /\ Len(rawColor.hex) = 7
  /\ rawColor.hex[1] = "#"
  /\ rawColor.is_good_name = FALSE

----------------------------------------------------------------------------
(* Properties of the store over several runs, checked under SpecRerun *)

\* C11: a successful upsert of a record the store already holds leaves the
\* store as it is, one of a name the store already holds adds no record, and
\* upserting the record once more changes nothing.
C11_UpsertIdempotent ==
  [][(pc = "saving" /\ lastUpsert' # lastUpsert) =>
       /\ preppedColor \in store => store' = store
       /\ (\E r \in store : r.name = preppedColor.name) =>
            Cardinality(store') = Cardinality(store)
       /\ Upsert(store', preppedColor) = store'
    ]_vars

\* the first row of a run was saved and the store is as it was before the
\* row: the record was there from an earlier run
C11_Witness ==
  /\ pc = "loop"
  /\ lastOutcome = "saved"
  /\ attempted = <<0>>
  /\ lastUpsert = 0
  /\ store # {}
  /\ store = storeBefore

\* C16: over any number of runs the store never holds two records of one
\* name; a successful upsert leaves its record in the store and the records
\* of the other names in place; and nothing else changes the store, so the
\* record held for a name is the one of the row persisted last.
C16_OneRecordPerNameLastWins ==
  [][/\ \A r1, r2 \in store' : r1.name = r2.name => r1 = r2
     /\ (pc = "saving" /\ lastUpsert' # lastUpsert) =>
          /\ preppedColor \in store'
          /\ \A r \in store : r.name # preppedColor.name => r \in store'
     /\ store' # store => pc = "saving" /\ lastUpsert' # lastUpsert
    ]_vars

\* two rows of the same name were persisted in one run: the store holds
\* the record of the second only
C16_Witness ==
  /\ pc = "done"
  /\ colorRows = <<RedRow, RedAgain>>
  /\ attempted = <<0, 1>>
  /\ ~failed
  /\ Cardinality(store) = 1
  /\ \A r \in store : r.hex = <<"0", "0", "f", "f", "0", "0">>

----------------------------------------------------------------------------
(* Termination, checked under SpecFair *)

====
